---- MODULE Spec2Model ----
(***************************************************************************)
(* Model of getEnsText (viem, actions/ens/getEnsText.ts): one invocation   *)
(* of the async function, from the call to its settlement.  The function   *)
(* has a single suspension point, the await of readContract, so it runs    *)
(* as two atomic segments: everything up to the outbound call, and the     *)
(* continuation (decode loop and return, or the catch block).              *)
(*                                                                         *)
(* Texts are sequences of character codes, keys are strings.  Hashing      *)
(* (keccak256) and ABI encoding are symbolic and collision free.           *)
(***************************************************************************)
EXTENDS Integers, Sequences, FiniteSets, TLC

\* Largest number of keys in a requested key array.
MaxKeys == 2

\* ENS names as character codes; 46 is the label separator '.'.
\* "a", "a.b", "b.a"
NameSet == { <<97>>, <<97, 46, 98>>, <<98, 46, 97>> }

\* Record keys: two ordinary keys, a canonical array index, and the
\* name of the prototype accessor of ordinary objects.
KeySet == { "url", "email", "1", "__proto__" }

\* Raw sub-results: '0x', the encodings of "", "a" and "b" (length prefix,
\* then the characters), and a payload shorter than its length prefix.
RawSet == { <<>>, <<0>>, <<1, 97>>, <<1, 98>>, <<2, 97>> }

\* Failures readContract can raise.
NetErrSet == { "ResolverNotFound", "ResolverWildcardNotSupported",
               "ReverseNodeNotFound", "ContractFunctionExecutionError",
               "HttpRequestError" }

\* client.chain: absent, a chain without the ensUniversalResolver contract,
\* a chain that has it.
ChainSet == { "undefined", "noEnsContract", "mainnet" }

\* The universalResolverAddress parameter: absent or given.
AddressParamSet == { "undefined", "0xCustomResolver" }

VARIABLES pc, name, key, chain, addressParam, calls, res, netErr, outcome

vars == <<pc, name, key, chain, addressParam, calls, res, netErr, outcome>>

----------------------------------------------------------------------------
\* JavaScript values the function handles.

JSNull == [t |-> "null", s |-> <<>>]
JSUndefined == [t |-> "undefined", s |-> <<>>]
JSString(str) == [t |-> "string", s |-> str]
JSObjectPrototype == [t |-> "Object.prototype", s |-> <<>>]
JSFunction == [t |-> "function", s |-> <<>>]

\* The key parameter: a single key or an array of keys.
ScalarKey(k) == [isArray |-> FALSE, k |-> k, ks |-> <<>>]
ArrayKey(ks) == [isArray |-> TRUE, k |-> "", ks |-> ks]

KeySeqs(n) == UNION { [1..m -> KeySet] : m \in 0..n }

KeyParamSet == { ScalarKey(k) : k \in KeySet } \cup { ArrayKey(ks) : ks \in KeySeqs(MaxKeys) }

NoKey == ScalarKey("")

----------------------------------------------------------------------------
\* The object literal {} and property access on it.

NewObject == [proto |-> "Object.prototype", own |-> <<>>]

HasOwn(o, k) == \E j \in 1..Len(o.own) : o.own[j].key = k

\* Value of the canonical array index a property key denotes, -1 if none.
ArrayIndex(k) ==
  CASE k = "0" -> 0 [] k = "1" -> 1 [] k = "2" -> 2 [] k = "3" -> 3
    [] OTHER -> -1

\* Names every ordinary object inherits from Object.prototype.
InheritedNames == { "constructor", "toString", "valueOf", "hasOwnProperty",
                    "isPrototypeOf", "propertyIsEnumerable", "toLocaleString" }

\* o[k] = v.  An own property is overwritten in place.  "__proto__" reaches the
\* accessor inherited from Object.prototype, whose setter replaces the prototype
\* when v is null and ignores a string; any other new key is appended.
JSSet(o, k, v) ==
  IF HasOwn(o, k)
    THEN [o EXCEPT !.own = [j \in 1..Len(o.own) |->
                              IF o.own[j].key = k THEN [key |-> k, val |-> v]
                                                  ELSE o.own[j]]]
  ELSE IF k = "__proto__" /\ o.proto = "Object.prototype"
    THEN IF v.t = "null" THEN [o EXCEPT !.proto = "null"] ELSE o
  ELSE [o EXCEPT !.own = Append(@, [key |-> k, val |-> v])]

\* o[k].
JSGet(o, k) ==
  IF HasOwn(o, k)
    THEN (CHOOSE e \in { o.own[j] : j \in 1..Len(o.own) } : e.key = k).val
  ELSE IF o.proto = "Object.prototype" /\ k = "__proto__" THEN JSObjectPrototype
  ELSE IF o.proto = "Object.prototype" /\ k \in InheritedNames THEN JSFunction
  ELSE JSUndefined

RECURSIVE IndexEntries(_, _)
IndexEntries(own, n) ==
  IF n > 3 THEN <<>>
  ELSE SelectSeq(own, LAMBDA e : ArrayIndex(e.key) = n) \o IndexEntries(own, n + 1)

\* The own properties in enumeration order: array indices ascending, then
\* the other keys in the order they were created.
OwnEntries(o) ==
  IndexEntries(o.own, 0) \o SelectSeq(o.own, LAMBDA e : ArrayIndex(e.key) = -1)

----------------------------------------------------------------------------
\* Collaborators of getEnsText: name encoding, ABI codec, chain registry and
\* failure classifier.

\* name.split('.')
RECURSIVE Split(_)
Split(n) ==
  IF \E i \in 1..Len(n) : n[i] = 46
    THEN LET i == CHOOSE j \in 1..Len(n) :
                    n[j] = 46 /\ \A h \in 1..(j - 1) : n[h] # 46
         IN <<SubSeq(n, 1, i - 1)>> \o Split(SubSeq(n, i + 1, Len(n)))
    ELSE <<n>>

\* The digest after folding the labels i, i-1, .., 1 into d.  The digest
\* keccak256(d ++ keccak256(label)) is the symbolic term Append(d, label).
RECURSIVE HashLabels(_, _, _)
HashLabels(labels, i, d) ==
  IF i = 0 THEN d ELSE HashLabels(labels, i - 1, Append(d, labels[i]))

\* namehash(name): starts from the zero digest (the empty term) and hashes the
\* labels from the rightmost to the leftmost.
namehash(n) ==
  IF n = <<>> THEN <<>> ELSE HashLabels(Split(n), Len(Split(n)), <<>>)

RECURSIVE PacketLabels(_, _)
PacketLabels(labels, i) ==
  IF i > Len(labels) THEN <<0>>
  ELSE <<Len(labels[i])>> \o labels[i] \o PacketLabels(labels, i + 1)

\* packetToBytes(name): a length byte and the bytes of each label, in order,
\* then the zero-length label.
packetToBytes(n) == IF n = <<>> THEN <<0>> ELSE PacketLabels(Split(n), 1)

\* toHex(bytes): two hexadecimal digits per byte.
RECURSIVE toHex(_)
toHex(bytes) ==
  IF bytes = <<>> THEN <<>>
  ELSE <<bytes[1] \div 16, bytes[1] % 16>> \o toHex(Tail(bytes))

\* encodeFunctionData({ abi, functionName, args: [node, key] })
encodeFunctionData(fn, node, k) == [functionName |-> fn, node |-> node, key |-> k]

\* decodeFunctionResult({ abi: textResolverAbi, functionName: 'text', data }):
\* a length-prefixed string; fails when the payload is shorter than its prefix.
decodeFunctionResult(data) ==
  IF Len(data) >= 1 /\ Len(data) - 1 >= data[1]
    THEN [threw |-> FALSE, str |-> SubSeq(data, 2, data[1] + 1)]
    ELSE [threw |-> TRUE, str |-> <<>>]

\* getChainContractAddress({ chain, contract: 'ensUniversalResolver' })
getChainContractAddress(ch) ==
  IF ch = "mainnet"
    THEN [threw |-> FALSE, address |-> "0xMainnetResolver", err |-> "none"]
    ELSE [threw |-> TRUE, address |-> "none", err |-> "ChainDoesNotSupportContract"]

\* isNullUniversalResolverError(err, callType)
isNullUniversalResolverError(err, callType) ==
  \/ err \in { "ResolverNotFound", "ResolverWildcardNotSupported" }
  \/ callType = "reverse" /\ err = "ReverseNodeNotFound"

----------------------------------------------------------------------------
\* Settlements of the promise getEnsText returns.

Pending == [kind |-> "pending", val |-> JSUndefined, entries |-> <<>>, err |-> "none"]
ReturnValue(v) == [kind |-> "return", val |-> v, entries |-> <<>>, err |-> "none"]
ReturnRecord(o) ==
  [kind |-> "return", val |-> [t |-> "record", s |-> <<>>],
   entries |-> OwnEntries(o), err |-> "none"]
Throw(e) == [kind |-> "throw", val |-> JSUndefined, entries |-> <<>>, err |-> e]

----------------------------------------------------------------------------
\* getEnsText, piece by piece.

\* Variant: falls back to a default address when the client has no chain.
ResolveAddressDefaulting(param, ch) ==
  IF param # "undefined" THEN [threw |-> FALSE, address |-> param, err |-> "none"]
  ELSE IF ch = "undefined"
    THEN [threw |-> FALSE, address |-> "0xMainnetResolver", err |-> "none"]
  ELSE getChainContractAddress(ch)

\* The universal resolver address: the parameter, else the chain's contract;
\* without a chain the function throws.
ResolveAddress(param, ch) ==
  IF param # "undefined" THEN [threw |-> FALSE, address |-> param, err |-> "none"]
  ELSE IF ch = "undefined"
    THEN [threw |-> TRUE, address |-> "none", err |-> "ClientChainNotConfigured"]
  ELSE getChainContractAddress(ch)

\* const keys = Array.isArray(key) ? key : [key]
Keys(ky) == IF ky.isArray THEN ky.ks ELSE <<ky.k>>

\* keys[i]; past the end of the array it is undefined, which names the
\* property "undefined".
KeyAt(keys, i) == IF i <= Len(keys) THEN keys[i] ELSE "undefined"

\* The property key `key` names in decodedRecords[key]: the key itself, or the
\* elements of the array joined by ','; evaluated for one-element arrays only.
ToPropertyKey(ky) == IF ky.isArray THEN ky.ks[1] ELSE ky.k

\* Variant: the sub-calls in reverse key order.
SubCallsReversed(n, keys) ==
  [i \in 1..Len(keys) |->
     encodeFunctionData("text", namehash(n), keys[Len(keys) + 1 - i])]

\* keys.map((k) => encodeFunctionData({ .. args: [namehash(name), k] }))
SubCalls(n, keys) ==
  [i \in 1..Len(keys) |-> encodeFunctionData("text", namehash(n), keys[i])]

\* The arguments of the readContract call.
Request(address, n, keys) ==
  [address |-> address, functionName |-> "resolve",
   packet |-> toHex(packetToBytes(n)), data |-> SubCalls(n, keys)]

\* Variant: a payload that does not decode is stored as null.
DecodeRecordLenient(raw) ==
  IF raw = <<>> THEN [threw |-> FALSE, val |-> JSNull]
  ELSE LET d == decodeFunctionResult(raw)
       IN IF d.threw \/ d.str = <<>> THEN [threw |-> FALSE, val |-> JSNull]
          ELSE [threw |-> FALSE, val |-> JSString(d.str)]

\* One iteration of the loop: the value stored for a raw sub-result.
DecodeRecord(raw) ==
  IF raw = <<>> THEN [threw |-> FALSE, val |-> JSNull]
  ELSE LET d == decodeFunctionResult(raw)
       IN IF d.threw THEN [threw |-> TRUE, val |-> JSUndefined]
          ELSE IF d.str = <<>> THEN [threw |-> FALSE, val |-> JSNull]
          ELSE [threw |-> FALSE, val |-> JSString(d.str)]

\* for (let i = 0; i < res[0].length; i++) { .. }
RECURSIVE DecodeLoop(_, _, _, _)
DecodeLoop(r, keys, i, o) ==
  IF i > Len(r) THEN [threw |-> FALSE, obj |-> o, err |-> "none"]
  ELSE LET d == DecodeRecord(r[i])
       IN IF d.threw THEN [threw |-> TRUE, obj |-> o, err |-> "AbiDecodingError"]
          ELSE DecodeLoop(r, keys, i + 1, JSSet(o, KeyAt(keys, i), d.val))

\* return keys.length === 1 ? decodedRecords[key] : decodedRecords
Shape(ky, keys, o) ==
  IF Len(keys) = 1 THEN ReturnValue(JSGet(o, ToPropertyKey(ky))) ELSE ReturnRecord(o)

\* Variant: a catch block that rethrows every failure.
CatchRethrow(err) == Throw(err)

\* Variant: a catch block that turns every failure into null.
CatchSwallow(err) == ReturnValue(JSNull)

\* catch (err) { if (isNullUniversalResolverError(err, 'resolve')) return null; throw err }
Catch(err) ==
  IF isNullUniversalResolverError(err, "resolve") THEN ReturnValue(JSNull) ELSE Throw(err)

\* The continuation of the await when readContract returns r.
OnFulfilled(ky, r) ==
  LET keys == Keys(ky)
      l == DecodeLoop(r, keys, 1, NewObject)
  IN IF l.threw THEN Catch(l.err) ELSE Shape(ky, keys, l.obj)

----------------------------------------------------------------------------
Init ==
  /\ pc = "idle"
  /\ name = <<>>
  /\ key = NoKey
  /\ chain = "undefined"
  /\ addressParam = "undefined"
  /\ calls = <<>>
  /\ res = <<>>
  /\ netErr = "none"
  /\ outcome = Pending

\* getEnsText is called: the address is determined and the call is sent.
Invoke ==
  /\ pc = "idle"
  /\ \E n \in NameSet, ky \in KeyParamSet, ch \in ChainSet, a \in AddressParamSet :
       LET r == ResolveAddress(a, ch)
       IN /\ name' = n
          /\ key' = ky
          /\ chain' = ch
          /\ addressParam' = a
          /\ IF r.threw
               THEN /\ pc' = "done"
                    /\ outcome' = Throw(r.err)
                    /\ calls' = calls
               ELSE /\ pc' = "awaiting"
                    /\ outcome' = outcome
                    /\ calls' = Append(calls, Request(r.address, n, Keys(ky)))
  /\ UNCHANGED <<res, netErr>>

\* readContract returns one raw sub-result per sub-call.
ReadContractReturns ==
  /\ pc = "awaiting"
  /\ \E r \in [1..Len(Keys(key)) -> RawSet] :
       /\ res' = r
       /\ outcome' = OnFulfilled(key, r)
  /\ pc' = "done"
  /\ UNCHANGED <<name, key, chain, addressParam, calls, netErr>>

\* Variant: a failure other than the no-resolver condition is retried once.
ReadContractThrowsRetry ==
  /\ pc = "awaiting"
  /\ \E e \in NetErrSet :
       /\ netErr' = e
       /\ IF isNullUniversalResolverError(e, "resolve")
            THEN /\ outcome' = ReturnValue(JSNull)
                 /\ pc' = "done"
                 /\ calls' = calls
            ELSE /\ outcome' = outcome
                 /\ pc' = IF Len(calls) < 2 THEN "awaiting" ELSE "done"
                 /\ calls' = Append(calls, calls[1])
  /\ UNCHANGED <<name, key, chain, addressParam, res>>

\* readContract fails.
ReadContractThrows ==
  /\ pc = "awaiting"
  /\ \E e \in NetErrSet :
       /\ netErr' = e
       /\ outcome' = Catch(e)
  /\ pc' = "done"
  /\ UNCHANGED <<name, key, chain, addressParam, calls, res>>

Next == Invoke \/ ReadContractReturns \/ ReadContractThrows

Spec == Init /\ [][Next]_vars

----------------------------------------------------------------------------
\* Vocabulary of the properties.

\* The invocation settled after readContract returned.
Responded == pc = "done" /\ calls # <<>> /\ netErr = "none"

\* The invocation settled after readContract failed.
Failed == pc = "done" /\ calls # <<>> /\ netErr # "none"

Malformed(raw) == raw # <<>> /\ decodeFunctionResult(raw).threw

NoneMalformed == \A i \in 1..Len(res) : ~Malformed(res[i])

\* What a well-formed raw sub-result stands for, taken alone.
Expected(raw) ==
  IF raw = <<>> \/ decodeFunctionResult(raw).str = <<>>
    THEN JSNull
    ELSE JSString(decodeFunctionResult(raw).str)

Distinct(ks) == \A i, j \in 1..Len(ks) : i # j => ks[i] # ks[j]

\* The last position of key k in ks.
LastPos(ks, k) == CHOOSE i \in 1..Len(ks) : ks[i] = k /\ \A j \in (i + 1)..Len(ks) : ks[j] # k

\* C1: for two or more distinct keys and one well-formed raw sub-result per key,
\* the call returns a mapping whose entries are the requested keys in the
\* requested order, the i-th value being the decoding of the i-th sub-result alone.
C1_PositionalMapping ==
  (Responded /\ key.isArray /\ Len(key.ks) >= 2 /\ Distinct(key.ks) /\ NoneMalformed)
    => /\ outcome.kind = "return"
       /\ outcome.val.t = "record"
       /\ Len(outcome.entries) = Len(key.ks)
       /\ \A i \in 1..Len(key.ks) :
            /\ outcome.entries[i].key = key.ks[i]
            /\ outcome.entries[i].val = Expected(res[i])

\* C1 on keys = ["__proto__", "url"]: the mapping returned has no entry for the
\* first key.
C1_Divergence ==
  /\ Responded
  /\ key = ArrayKey(<<"__proto__", "url">>)
  /\ res = << <<1, 97>>, <<1, 98>> >>
  /\ outcome.val.t = "record"
  /\ outcome.entries = << [key |-> "url", val |-> JSString(<<98>>)] >>

\* C2: when readContract fails with a failure that isNullUniversalResolverError
\* recognises for 'resolve', the call returns null, for a scalar key and for a
\* key array of any length.
C2_NoResolverYieldsNull ==
  (Failed /\ isNullUniversalResolverError(netErr, "resolve"))
    => outcome = ReturnValue(JSNull)

C2_Witness ==
  /\ Failed
  /\ netErr = "ResolverNotFound"
  /\ key.isArray /\ Len(key.ks) = 2
  /\ outcome = ReturnValue(JSNull)

\* C3: when readContract fails with any other failure, the call raises that
\* same failure; it is not replaced and not turned into a return value.
C3_OtherFailureRaised ==
  (Failed /\ ~isNullUniversalResolverError(netErr, "resolve"))
    => outcome = Throw(netErr)

C3_Witness ==
  /\ Failed
  /\ netErr = "HttpRequestError"
  /\ outcome = Throw("HttpRequestError")

\* C4: for a scalar key and a well-formed raw sub-result, the result is null
\* exactly when the sub-result is '0x' or decodes to the empty string, and is
\* the decoded string otherwise.
C4_ScalarNullIffAbsent ==
  (Responded /\ ~key.isArray /\ NoneMalformed)
    => /\ outcome = ReturnValue(Expected(res[1]))
       /\ (outcome.val = JSNull <=> (res[1] = <<>> \/ decodeFunctionResult(res[1]).str = <<>>))

\* C4 on key = "__proto__" with the record "a": the result is Object.prototype.
C4_Divergence ==
  /\ Responded
  /\ key = ScalarKey("__proto__")
  /\ res = << <<1, 97>> >>
  /\ outcome = ReturnValue(JSObjectPrototype)

\* C5: without an address parameter and without a client chain the call fails
\* with the configuration error, no readContract call having been made, and the
\* failure is not turned into null.
C5_ConfigurationErrorBeforeCall ==
  (pc # "idle" /\ addressParam = "undefined" /\ chain = "undefined")
    => /\ pc = "done"
       /\ outcome = Throw("ClientChainNotConfigured")
       /\ calls = <<>>

C5_Witness ==
  /\ pc = "done"
  /\ addressParam = "undefined"
  /\ chain = "undefined"
  /\ outcome = Throw("ClientChainNotConfigured")

\* C6: a non-null result is a bare string for a scalar key and a mapping for a
\* key array of any length, one-element arrays included.
C6_ShapeFollowsRequest ==
  (Responded /\ outcome.kind = "return" /\ outcome.val # JSNull)
    => outcome.val.t = (IF key.isArray THEN "record" ELSE "string")

\* C6 on key = ["url"] with the record "a": the result is the bare string.
C6_Divergence ==
  /\ Responded
  /\ key = ArrayKey(<<"url">>)
  /\ res = << <<1, 97>> >>
  /\ outcome = ReturnValue(JSString(<<97>>))

\* C7: when a key occurs more than once and the sub-results at its positions
\* differ, the mapping holds one entry for it, whose value is the decoding of
\* the sub-result at its last position; one sub-call is sent per occurrence.
C7_LastWriteWins ==
  (Responded /\ key.isArray /\ Len(key.ks) >= 2 /\ NoneMalformed)
    => \A i, j \in 1..Len(key.ks) :
         (i < j /\ key.ks[i] = key.ks[j] /\ res[i] # res[j])
           => /\ outcome.val.t = "record"
              /\ Cardinality({h \in 1..Len(outcome.entries) :
                                outcome.entries[h].key = key.ks[i]}) = 1
              /\ \A h \in 1..Len(outcome.entries) :
                   outcome.entries[h].key = key.ks[i]
                     => outcome.entries[h].val = Expected(res[LastPos(key.ks, key.ks[i])])
              /\ Len(calls[1].data) = Len(key.ks)

\* C7 on keys = ["__proto__", "__proto__"] with the records "a" and '0x': the
\* mapping returned is empty, two sub-calls having been sent.
C7_Divergence ==
  /\ Responded
  /\ key = ArrayKey(<<"__proto__", "__proto__">>)
  /\ res = << <<1, 97>>, <<>> >>
  /\ Len(calls[1].data) = 2
  /\ outcome.val.t = "record"
  /\ outcome.entries = <<>>

C9_SubCallsMirrorKeys ==
  calls # <<>> =>
    /\ calls[1].functionName = "resolve"
    /\ calls[1].packet = toHex(packetToBytes(name))
    /\ Len(calls[1].data) = Len(Keys(key))
    /\ \A i \in 1..Len(Keys(key)) :
         /\ calls[1].data[i].functionName = "text"
         /\ calls[1].data[i].node = namehash(name)
         /\ calls[1].data[i].key = Keys(key)[i]

C9_Witness ==
  /\ pc = "awaiting"
  /\ name = <<97, 46, 98>>
  /\ key = ArrayKey(<<"email", "url">>)
  /\ calls[1].data[1].key = "email"
  /\ calls[1].data[2].key = "url"
  /\ calls[1].data[2].node = << <<98>>, <<97>> >>

\* The settlement carries the result of position i of the request.
Delivered(i) ==
  /\ outcome.kind = "return"
  /\ IF outcome.val.t = "record"
       THEN \E h \in 1..Len(outcome.entries) :
              /\ outcome.entries[h].key = Keys(key)[i]
              /\ outcome.entries[h].val = Expected(res[i])
       ELSE outcome.val = Expected(res[i])

\* C10 as stated: a malformed sub-result surfaces a decoding error, and is
\* fatal for that key's result only: the results of the other keys survive.
C10_FatalForThatKeyOnly ==
  (Responded /\ ~NoneMalformed)
    => /\ outcome.kind = "throw"
       /\ outcome.err = "AbiDecodingError"
       /\ \A i \in 1..Len(res) : ~Malformed(res[i]) => Delivered(i)

\* C10, amended: a malformed sub-result makes the whole call fail with the
\* decoding error: nothing is returned, neither null nor any key's value.
C10_FatalForTheCall ==
  (Responded /\ ~NoneMalformed) => outcome = Throw("AbiDecodingError")

C10_Witness ==
  /\ Responded
  /\ key = ArrayKey(<<"email", "url">>)
  /\ res = << <<1, 97>>, <<2, 97>> >>
  /\ outcome = Throw("AbiDecodingError")

====
